---- MODULE Spec2Model ----
(***************************************************************************)
(* Model of the MEV bot of src/src/main.rs: MEVBot::run joins three loops  *)
(* (mempool, block, periodic arbitrage scan); each loop detects candidate  *)
(* opportunities, filters them against min_profit_threshold and hands the  *)
(* admitted ones to TransactionExecutor::execute_opportunity.              *)
(*                                                                         *)
(* The bodies of parse_swap_data, calculate_sandwich_profit,               *)
(* build_sandwich_transactions, check_liquidation_opportunity,             *)
(* find_block_opportunities, find_arbitrage_opportunities and of the three *)
(* execute_* functions are placeholders in the source (each returns one    *)
(* constant: Ok(None), Ok(zero), Ok(vec![]) or Ok(())).  The code that     *)
(* calls them handles every value of their declared return types, so the   *)
(* model lets each of them return any value of its return type (the        *)
(* constant of the source included) and awaits them where the source       *)
(* awaits them.  The state the program reaches with the placeholders as    *)
(* written is the subset in which no candidate is ever produced.           *)
(***************************************************************************)
EXTENDS Integers, Sequences, FiniteSets, TLC

\* ---------------------------------------------------------------- bounds
MaxHead == 1        \* blocks the chain produces during a run
MaxEvents == 2      \* stream events and timer ticks consumed in total
MaxOpps == 2        \* candidates one detection round returns at most

\* ------------------------------------------------------------- constants
SandwichGas == 500000   \* gas_estimate of a sandwich opportunity

Loops == {"mempool", "block", "arbitrage"}
TxHashes == {1}
Keys == {1, 2}
Profits == {0, 10, 50}
FoundProfits == {10, 50}
Thresholds == {5, 10}
None == [tag |-> "None"]
Some(v) == [tag |-> "Some", val |-> v]
Ok(v) == [tag |-> "Ok", val |-> v]
Err == [tag |-> "Err"]
NoOpp == [tag |-> "NoOpp"]

VARIABLES
    pc,          \* where each loop is suspended
    run,         \* MEVBot::run: "running", "err" or "ok"
    min_profit_threshold,
    head,        \* number of the chain's newest block
    delivered,   \* number of the last block the block stream yielded
    local,       \* the mempool loop's tx_hash / tx / decoded swap, the call
                 \* whose Err the loop returned, or None
    pending,     \* is the transaction the mempool loop works on still pending
    found,       \* per loop: block the round's candidates were evaluated
                 \* against and the profit of the candidate of the round
                 \* executed last (0: none yet), or the sandwich opportunity
                 \* detected
    queue,       \* per loop: how many candidates of the round are not yet filtered
    cur,         \* per loop: the opportunity inside execute_opportunity
    lastReject,  \* the last candidate the threshold filter rejected (history)
    lastFailed,  \* the loop whose execution failed last (history)
    failures,    \* per loop: chain data source errors seen (history)
    events       \* events consumed so far

vars == <<pc, run, min_profit_threshold, head, delivered, local, pending, found, queue, cur,
          lastReject, lastFailed, failures, events>>

\* ------------------------------------------------------ opportunity model
DexRouters == {"UniswapV2", "UniswapV3", "SushiSwap"}
Addresses == DexRouters \cup {"Other"}
GasEstimates == {21000}

MEVOpportunity(kind, key, profit, gas, block) ==
    [tag |-> "Opp", kind |-> kind, key |-> key, profit_estimate |-> profit,
     gas_estimate |-> gas, block_number |-> block, transaction_data |-> <<>>]

\* The key an opportunity is deduplicated by: its kind with the kind's
\* identifying payload (target_tx, borrower, token pair).
DedupKey(o) == <<o.kind, o.key>>

\* tx.block_number.unwrap_or_default(): a pending transaction has none.
unwrap_or_default(b) == IF b.tag = "None" THEN 0 ELSE b.val

is_dex_swap(address) == address \in DexRouters

\* Values of the placeholders' return types.
parse_swap_data == {Err, None, Some([token |-> "A", amount |-> 10])}
calculate_sandwich_profit == {Err} \cup {Ok(p) : p \in Profits}
build_sandwich_transactions == {Err, Ok(<<>>)}
execute_results == {Ok(<<>>), Err}

\* The opportunities a detector of loop l can return, evaluated against
\* block b.
Kinds(l) ==
    CASE l = "mempool" -> {"Liquidation"}
      [] l = "block" -> {"Arbitrage", "Liquidation"}
      [] l = "arbitrage" -> {"Arbitrage"}

Found(l, b) ==
    {MEVOpportunity(k, key, p, g, b) :
        k \in Kinds(l), key \in Keys, p \in FoundProfits, g \in GasEstimates}

\* The detectors return Err, None or Some(candidates).  A returned vector is
\* represented by its length: nothing reads an element before the for loop
\* of the caller reaches it, so the element is drawn from Found at that
\* point.
check_liquidation_opportunity == {Err, None, Some(1)}
find_block_opportunities == {Err, None} \cup {Some(n) : n \in 0 .. MaxOpps}
find_arbitrage_opportunities == {Err, None} \cup {Some(n) : n \in 0 .. MaxOpps}

\* The arm of the match in execute_opportunity.
execute_opportunity(o) ==
    CASE o.kind = "Arbitrage" -> "execute_arbitrage"
      [] o.kind = "Liquidation" -> "execute_liquidation"
      [] o.kind = "Sandwich" -> "execute_sandwich"

\* Mutant of PassesThreshold: a candidate at the threshold passes.
PassesThresholdOrEqual(o) == o.profit_estimate >= min_profit_threshold

\* The threshold filter of the three loops.
PassesThreshold(o) == o.profit_estimate > min_profit_threshold

\* Mutant of AfterRound: the arbitrage loop returns Ok(()) after a scan
\* instead of sleeping and scanning again.
AfterRoundReturn(l) == IF l = "arbitrage" THEN "ok" ELSE "next"

\* Mutant of Continue: the loop leaves the round after its first candidate
\* and takes its next event with candidates still unhandled.
ContinueNextEvent(l, q) == IF l = "arbitrage" THEN "sleep" ELSE "next"

\* Where a loop goes when the candidates of a round are used up.
AfterRound(l) == IF l = "arbitrage" THEN "sleep" ELSE "next"
Continue(l, q) == IF q = 0 THEN AfterRound(l) ELSE "filter"

\* Mutant of AfterExecute: the Err of execute_opportunity is propagated
\* with `?` instead of being logged.
AfterExecutePropagate(l, res, q) == IF res.tag = "Err" THEN "err" ELSE Continue(l, q)

\* What a loop does with the result of execute_opportunity: an Err is
\* logged and the loop goes on.
AfterExecute(l, res, q) == Continue(l, q)


\* ------------------------------------------------------------------ Init
Init ==
    /\ pc = [l \in Loops |-> IF l = "arbitrage" THEN "scan" ELSE "subscribe"]
    /\ run = "running"
    /\ min_profit_threshold \in Thresholds
    /\ head = 0
    /\ delivered = 0
    /\ local = None
    /\ pending = TRUE
    /\ queue = [l \in Loops |-> 0]
    /\ found = [l \in Loops |-> None]
    /\ cur = [l \in Loops |-> NoOpp]
    /\ lastReject = None
    /\ lastFailed = None
    /\ failures = [l \in Loops |-> 0]
    /\ events = 0

\* --------------------------------------------------------------- helpers
\* Mutant of try_join: tokio::join!, which waits for all three loops before
\* it reports the Err of one of them.
join(p) ==
    IF \E l \in Loops : p[l] \notin {"ok", "err"} THEN "running"
    ELSE IF \E l \in Loops : p[l] = "err" THEN "err"
    ELSE "ok"

\* tokio::try_join! in run: Err as soon as one loop returned Err (the other
\* loops are dropped), Ok when all three returned Ok.
try_join(p) ==
    IF \E l \in Loops : p[l] = "err" THEN "err"
    ELSE IF \A l \in Loops : p[l] = "ok" THEN "ok"
    ELSE "running"

\* Loop l moves to `where`; "err" is the loop returning Err through `?`.
Goto(l, where) ==
    /\ pc' = [pc EXCEPT ![l] = where]
    /\ run' = try_join(pc')
    /\ failures' = [failures EXCEPT ![l] = IF where = "err" THEN @ + 1 ELSE @]

\* The candidates a detector returned, evaluated against block b; none of
\* them is executed yet.
Vector(b) == [tag |-> "Block", val |-> b, executed |-> 0]

\* A detection round of loop l returned n candidates; f is the sandwich
\* opportunity or the block the candidates were evaluated against.
Round(l, n, f) ==
    /\ Goto(l, Continue(l, n))
    /\ queue' = [queue EXCEPT ![l] = n]
    /\ found' = [found EXCEPT ![l] = IF n = 0 THEN None ELSE f]

\* ------------------------------------------------------------ environment
\* The chain produces a block.
ChainAdvance ==
    /\ run = "running"
    /\ head < MaxHead
    /\ head' = head + 1
    /\ UNCHANGED <<pc, run, min_profit_threshold, delivered, local, pending, found, queue, cur,
                   lastReject, lastFailed, failures, events>>

\* The transaction the mempool loop works on leaves the pending pool (it is
\* mined, dropped or replaced) after the decode of its swap and before the
\* admission decision for the sandwich built on it.
TargetLeavesMempool ==
    /\ run = "running"
    /\ pending
    /\ \/ pc["mempool"] = "profit"
       \/ pc["mempool"] = "filter" /\ found["mempool"].tag = "Opp"
    /\ pending' = FALSE
    /\ UNCHANGED <<pc, run, min_profit_threshold, head, delivered, local, found, queue, cur,
                   lastReject, lastFailed, failures, events>>

\* ----------------------------------------------------------- mempool loop
\* The Err a loop returns, named by the call it came from.
ErrorFrom(call) == [tag |-> "Error", from |-> call]

\* subscribe_pending_txs().await?
MempoolSubscribe ==
    /\ run = "running" /\ pc["mempool"] = "subscribe"
    /\ \E r \in {Ok(<<>>), Err} : Goto("mempool", IF r.tag = "Ok" THEN "next" ELSE "err")
    /\ UNCHANGED <<min_profit_threshold, head, delivered, local, pending, found, queue, cur,
                   lastReject, lastFailed, events>>

\* stream.next().await yields a hash; get_transaction(tx_hash) is awaited.
MempoolNext ==
    /\ run = "running" /\ pc["mempool"] = "next"
    /\ events < MaxEvents
    /\ \E h \in TxHashes : local' = [tag |-> "Hash", hash |-> h]
    /\ events' = events + 1
    /\ Goto("mempool", "get_tx")
    /\ UNCHANGED <<min_profit_threshold, head, delivered, pending, found, queue, cur,
                   lastReject, lastFailed>>

\* stream.next().await yields None: the loop returns Ok(()).
MempoolStreamEnd ==
    /\ run = "running" /\ pc["mempool"] = "next"
    /\ Goto("mempool", "ok")
    /\ UNCHANGED <<min_profit_threshold, head, delivered, local, pending, found, queue, cur,
                   lastReject, lastFailed, events>>

\* get_transaction(..).await? resolves; on Some(tx) analyze_transaction runs
\* check_sandwich_opportunity up to its first await.
MempoolGetTx ==
    /\ run = "running" /\ pc["mempool"] = "get_tx"
    /\ \/ /\ Goto("mempool", "err")                       \* Err(_)
          /\ local' = ErrorFrom("get_transaction")
          /\ pending' = TRUE
       \/ /\ Goto("mempool", "next")                      \* Ok(None) => continue
          /\ local' = None
          /\ pending' = TRUE
       \/ \E to \in {None} \cup {Some(a) : a \in Addresses},
             b \in {None} \cup {Some(n) : n \in 0 .. head},
             parsed \in parse_swap_data :
            IF to.tag = "Some" /\ is_dex_swap(to.val) /\ parsed.tag = "Err"
            THEN /\ Goto("mempool", "err")
                 /\ local' = ErrorFrom("parse_swap_data")
                 /\ pending' = TRUE
            ELSE IF to.tag = "Some" /\ is_dex_swap(to.val) /\ parsed.tag = "Some"
            THEN /\ Goto("mempool", "profit")             \* calculate_sandwich_profit awaited
                 /\ local' = [tag |-> "Swap", hash |-> local.hash, to |-> to.val,
                              token |-> parsed.val.token,
                              amount |-> parsed.val.amount,
                              block_number |-> unwrap_or_default(b)]
                 /\ pending' = (b.tag = "None")          \* a mined transaction has a block
            ELSE /\ Goto("mempool", "liq")                \* check_liquidation_opportunity awaited
                 /\ local' = None
                 /\ pending' = TRUE
    /\ UNCHANGED <<min_profit_threshold, head, delivered, found, queue, cur,
                   lastReject, lastFailed, events>>

\* calculate_sandwich_profit(..).await? resolves; a positive profit makes the
\* sandwich opportunity, a zero profit falls through to the liquidation check.
MempoolProfit ==
    /\ run = "running" /\ pc["mempool"] = "profit"
    /\ \E profit \in calculate_sandwich_profit, bundle \in build_sandwich_transactions :
         IF profit.tag = "Err" \/ (profit.val > 0 /\ bundle.tag = "Err")
         THEN /\ Goto("mempool", "err")
              /\ local' = ErrorFrom(IF profit.tag = "Err" THEN "calculate_sandwich_profit"
                                     ELSE "build_sandwich_transactions")
              /\ pending' = TRUE
              /\ UNCHANGED <<found, queue>>
         ELSE IF profit.val > 0
         THEN /\ Round("mempool", 1,
                       MEVOpportunity("Sandwich", local.hash, profit.val, SandwichGas,
                                      local.block_number))
              /\ local' = None
              /\ UNCHANGED pending
         ELSE /\ Goto("mempool", "liq")
              /\ local' = None
              /\ pending' = TRUE
              /\ UNCHANGED <<found, queue>>
    /\ UNCHANGED <<min_profit_threshold, head, delivered, cur, lastReject, lastFailed, events>>

\* check_liquidation_opportunity(tx).await? resolves.
MempoolLiquidation ==
    /\ run = "running" /\ pc["mempool"] = "liq"
    /\ \E r \in check_liquidation_opportunity :
         IF r.tag = "Err"
         THEN /\ Goto("mempool", "err")
              /\ local' = ErrorFrom("check_liquidation_opportunity")
              /\ UNCHANGED <<found, queue>>
         ELSE IF r.tag = "None"
         THEN Goto("mempool", "next") /\ UNCHANGED <<local, found, queue>>
         ELSE Round("mempool", r.val, Vector(head)) /\ UNCHANGED local
    /\ UNCHANGED <<min_profit_threshold, head, delivered, pending, cur,
                   lastReject, lastFailed, events>>

\* ------------------------------------------------------------- block loop
\* subscribe_blocks().await?
BlockSubscribe ==
    /\ run = "running" /\ pc["block"] = "subscribe"
    /\ \E r \in {Ok(<<>>), Err} : Goto("block", IF r.tag = "Ok" THEN "next" ELSE "err")
    /\ UNCHANGED <<min_profit_threshold, head, delivered, local, pending, found, queue, cur,
                   lastReject, lastFailed, events>>

\* stream.next().await yields the next block; find_block_opportunities is
\* awaited.
BlockNext ==
    /\ run = "running" /\ pc["block"] = "next"
    /\ events < MaxEvents
    /\ delivered < head
    /\ delivered' = delivered + 1
    /\ events' = events + 1
    /\ Goto("block", "find")
    /\ UNCHANGED <<min_profit_threshold, head, local, pending, found, queue, cur,
                   lastReject, lastFailed>>

\* stream.next().await yields None: the loop returns Ok(()).
BlockStreamEnd ==
    /\ run = "running" /\ pc["block"] = "next"
    /\ Goto("block", "ok")
    /\ UNCHANGED <<min_profit_threshold, head, delivered, local, pending, found, queue, cur,
                   lastReject, lastFailed, events>>

\* find_block_opportunities(&block).await? resolves.
BlockFind ==
    /\ run = "running" /\ pc["block"] = "find"
    /\ \E r \in find_block_opportunities :
         IF r.tag = "Err" THEN Goto("block", "err") /\ UNCHANGED <<found, queue>>
         ELSE IF r.tag = "None" THEN Goto("block", "next") /\ UNCHANGED <<found, queue>>
         ELSE Round("block", r.val, Vector(delivered))
    /\ UNCHANGED <<min_profit_threshold, head, delivered, local, pending, cur,
                   lastReject, lastFailed, events>>

\* --------------------------------------------------------- arbitrage loop
\* find_arbitrage_opportunities().await? resolves.
ArbitrageFind ==
    /\ run = "running" /\ pc["arbitrage"] = "scan"
    /\ \E r \in find_arbitrage_opportunities :
         IF r.tag = "Err" THEN Goto("arbitrage", "err") /\ UNCHANGED <<found, queue>>
         ELSE IF r.tag = "None" THEN Goto("arbitrage", "sleep") /\ UNCHANGED <<found, queue>>
         ELSE Round("arbitrage", r.val, Vector(head))
    /\ UNCHANGED <<min_profit_threshold, head, delivered, local, pending, cur,
                   lastReject, lastFailed, events>>

\* sleep(100 ms).await is over: the next scan starts.
ArbitrageWake ==
    /\ run = "running" /\ pc["arbitrage"] = "sleep"
    /\ events < MaxEvents
    /\ events' = events + 1
    /\ Goto("arbitrage", "scan")
    /\ UNCHANGED <<min_profit_threshold, head, delivered, local, pending, found, queue, cur,
                   lastReject, lastFailed>>

\* ------------------------------------------------ filter and execution
\* The next candidate of the round of loop l.
Candidates(l) ==
    IF found[l].tag = "Opp" THEN {found[l]} ELSE Found(l, found[l].val)

\* The loop body for the next candidate of the round: the threshold test,
\* and for a candidate that passes it the call of execute_opportunity, which
\* awaits the execute_* function of the candidate's kind.
Filter(l) ==
    /\ run = "running" /\ pc[l] = "filter"
    /\ \E o \in Candidates(l) :
         /\ queue' = [queue EXCEPT ![l] = @ - 1]
         /\ found' = [found EXCEPT ![l] =
                        IF queue'[l] = 0 THEN None
                        ELSE IF PassesThreshold(o)
                        THEN [@ EXCEPT !.executed = o.profit_estimate]
                        ELSE @]
         /\ IF PassesThreshold(o)
            THEN /\ cur' = [cur EXCEPT ![l] = o]
                 /\ Goto(l, "exec")
                 /\ UNCHANGED lastReject
            ELSE /\ UNCHANGED cur
                 /\ Goto(l, Continue(l, queue'[l]))
                 /\ lastReject' = Some(o.profit_estimate)
    /\ pending' = IF l = "mempool" /\ pc'[l] # "exec" THEN TRUE ELSE pending
    /\ UNCHANGED <<min_profit_threshold, head, delivered, local, lastFailed, events>>

\* execute_opportunity(..).await returns; the loop logs an Err and goes on
\* with the next candidate of the round or the next event.
ExecReturn(l) ==
    /\ run = "running" /\ pc[l] = "exec"
    /\ \E r \in execute_results :
         /\ lastFailed' = IF r.tag = "Err" THEN Some(l) ELSE lastFailed
         /\ Goto(l, AfterExecute(l, r, queue[l]))
    /\ cur' = [cur EXCEPT ![l] = NoOpp]
    /\ pending' = IF l = "mempool" THEN TRUE ELSE pending
    /\ UNCHANGED <<min_profit_threshold, head, delivered, local, found, queue,
                   lastReject, events>>

Next ==
    \/ ChainAdvance \/ TargetLeavesMempool
    \/ MempoolSubscribe \/ MempoolNext \/ MempoolStreamEnd
    \/ MempoolGetTx \/ MempoolProfit \/ MempoolLiquidation
    \/ BlockSubscribe \/ BlockNext \/ BlockStreamEnd \/ BlockFind
    \/ ArbitrageFind \/ ArbitrageWake
    \/ \E l \in Loops : Filter(l)
    \/ \E l \in Loops : ExecReturn(l)

Spec == Init /\ [][Next]_vars

TypeOK ==
    /\ run \in {"running", "err", "ok"}
    /\ head \in 0 .. MaxHead /\ delivered \in 0 .. head
    /\ \A l \in Loops : queue[l] \in 0 .. MaxOpps
    /\ \A l \in Loops :
         pc[l] = "exec" =>
            execute_opportunity(cur[l]) \in
                {"execute_arbitrage", "execute_liquidation", "execute_sandwich"}

\* ----------------------------------------------------------------- claims
\* The opportunities inside execute_opportunity (handed to the executor, the
\* call not yet returned).
InFlight(l) == pc[l] = "exec"

C2_ThresholdStrict ==
    /\ \A l \in Loops : InFlight(l) => cur[l].profit_estimate > min_profit_threshold
    /\ lastReject.tag = "Some" => lastReject.val <= min_profit_threshold

\* C2 witness: at threshold 10 all three loops execute a candidate of profit
\* 50 and a candidate of profit exactly 10 was rejected.
C2_Witness ==
    /\ min_profit_threshold = 10
    /\ \A l \in Loops : InFlight(l) /\ cur[l].profit_estimate = 50
    /\ lastReject = Some(10)

C8_NoExitOnFirstFailure ==
    \A l \in Loops : failures[l] = 1 => (pc[l] # "err" /\ run = "running")

\* C9: when execute_opportunity returns (with Err in particular) the
\* opportunity is no longer in flight, the loop has not terminated and run
\* has not ended: the loop is at the next candidate of the round or waits
\* for its next event.
C9_FailureAbsorbed ==
    [][\A l \in Loops :
         (InFlight(l) /\ pc'[l] # "exec")
            => /\ pc'[l] \in {"filter", "next", "sleep"}
               /\ run' = "running"
               /\ cur'[l] = NoOpp]_vars

\* C9 witness: a loop whose last execution failed is executing a later
\* candidate.
C9_Witness ==
    \E l \in Loops : lastFailed = Some(l) /\ InFlight(l) /\ run = "running"

C18_ErrorEndsRun ==
    [][/\ (\E l \in Loops : pc'[l] = "err") => run' = "err"
       /\ run = "err" => (pc' = pc /\ events' = events /\ cur' = cur)]_vars

\* C18 witness: run has returned the error of one loop while another loop
\* was inside execute_opportunity and the third had candidates left.
C18_Witness ==
    /\ run = "err"
    /\ \E l, k, m \in Loops :
         pc[l] = "err" /\ InFlight(k) /\ pc[m] = "filter"

\* C19: run never returns Ok and the arbitrage loop never returns Ok: with
\* both streams ended normally run is still waiting and the arbitrage loop
\* is still scanning, sleeping or handling a candidate, unless it returned
\* an error (which ends run with that error).
C19_RunNeverOk ==
    /\ run # "ok"
    /\ pc["arbitrage"] # "ok"
    /\ (pc["mempool"] = "ok" /\ pc["block"] = "ok")
          => \/ run = "running" /\ pc["arbitrage"] \in {"scan", "sleep", "filter", "exec"}
             \/ run = "err" /\ pc["arbitrage"] = "err"

\* C19 witness: both streams have ended and the arbitrage loop, after a
\* timer tick, executes a candidate while run still waits.
C19_Witness ==
    /\ pc["mempool"] = "ok" /\ pc["block"] = "ok"
    /\ run = "running"
    /\ events > 0
    /\ InFlight("arbitrage")

\* C20: a loop takes its next event (or starts its next scan) only when the
\* round of the previous one is over: no candidate of it is left and no
\* execute_opportunity call of the loop is pending; a loop has an
\* opportunity in execution exactly while it is inside execute_opportunity.
C20_OneEventAtATime ==
    [][\A l \in Loops :
         /\ (pc'[l] \in {"get_tx", "find", "scan"} /\ pc'[l] # pc[l])
               => /\ pc[l] \in {"next", "sleep"}
                  /\ queue[l] = 0
                  /\ cur[l] = NoOpp
         /\ InFlight(l) <=> cur[l] # NoOpp]_vars

\* C20 witness: the mempool loop has taken its next transaction after an
\* execution of its previous one returned, while the arbitrage loop is
\* inside an execution of its own.
C20_Witness ==
    /\ lastFailed = Some("mempool")
    /\ pc["mempool"] = "get_tx"
    /\ InFlight("arbitrage")

====
